---- MODULE Spec2Model ----
(***************************************************************************)
(* Model of the tic-tac-toe rules engine, tictacai/logic/models.py.        *)
(*                                                                         *)
(* A Python string is modelled as a sequence of one-character strings, so  *)
(* that indexing, slicing, concatenation and regular-expression matching   *)
(* keep the behaviour they have in the source (negative indices, clamped   *)
(* slices, a concatenation that changes the length).                       *)
(*                                                                         *)
(* The state is what a caller of the library holds: the GameState it       *)
(* currently plays on, and the outcome of the last call it made.           *)
(***************************************************************************)
EXTENDS Integers, Sequences, FiniteSets

VARIABLES
    state,      \* the GameState the caller holds, or NoState
    result,     \* outcome of the last call: a return kind or an exception
    call,       \* the last call: operation, argument and receiver
    move,       \* the Move returned by the last make_move_to, or NoMove
    moves,      \* the list returned by the last possible_moves
    view,       \* the derived properties read by the last inspection
    placed      \* the marks placed by the successful moves, oldest first

vars == <<state, result, call, move, moves, view, placed>>

----------------------------------------------------------------------------
(* Bounds and constants *)

\* make_move_to is called with every index in -(MaxIndex+1) .. MaxIndex
MaxIndex == 9

\* len(" " * 9), the length of Grid.cells
GridSize == 9

EMPTY == " "
CROSS == "X"
NAUGHT == "O"

\* class Mark(str, enum.Enum), in definition (iteration) order
Mark == <<CROSS, NAUGHT>>

MarkSet == {Mark[k] : k \in 1..Len(Mark)}

None == "None"
NoState == [none |-> "GameState"]
NoMove == [none |-> "Move"]
NoCall == [op |-> "none"]
NoView == [none |-> "view"]

Indexes == (0 - (MaxIndex + 1)) .. MaxIndex

----------------------------------------------------------------------------
(* Python string operations *)

Min(a, b) == IF a < b THEN a ELSE b
Max(a, b) == IF a > b THEN a ELSE b

\* s[i] raises IndexError unless -len(s) <= i < len(s)
PyIndexOk(s, i) == (0 - Len(s)) <= i /\ i < Len(s)

\* s[i], a negative i counting from the end
PyGet(s, i) == s[(IF i < 0 THEN i + Len(s) ELSE i) + 1]

\* the bound of a slice: negative counts from the end, then clamped
PyBound(s, b) == IF b < 0 THEN Max(b + Len(s), 0) ELSE Min(b, Len(s))

\* s[:stop]
PySliceTo(s, stop) == SubSeq(s, 1, PyBound(s, stop))

\* s[start:]
PySliceFrom(s, start) == SubSeq(s, PyBound(s, start) + 1, Len(s))

\* s.count(c)
PyCount(s, c) == Cardinality({k \in 1..Len(s) : s[k] = c})

\* pattern.replace("?", mark)
PyReplace(pattern, mark) ==
    [k \in 1..Len(pattern) |-> IF pattern[k] = "?" THEN mark ELSE pattern[k]]

\* re.match(regex, s) for a regex of literals and dots: the regex matches a
\* prefix of s, a dot matching any character but a newline
ReMatch(regex, s) ==
    /\ Len(regex) <= Len(s)
    /\ \A k \in 1..Len(regex) :
         IF regex[k] = "." THEN s[k] # "\n" ELSE s[k] = regex[k]

\* [match.start() for match in re.finditer(c, s)] for a one-character class:
\* the 0-based positions of s that hold a character of chars, ascending
RECURSIVE FindAll(_, _, _)
FindAll(chars, s, from) ==
    IF from > Len(s) THEN <<>>
    ELSE (IF s[from] \in chars THEN <<from - 1>> ELSE <<>>)
         \o FindAll(chars, s, from + 1)

\* the characters of a cell string that \s matches
Whitespace == {" ", "\t", "\n", "\r"}

----------------------------------------------------------------------------
(* WINNING_PATTERNS *)

\* the patterns with the second diagonal written one cell off
WINNING_PATTERNS_slip == <<
    <<"?", "?", "?", ".", ".", ".", ".", ".", ".">>,
    <<".", ".", ".", "?", "?", "?", ".", ".", ".">>,
    <<".", ".", ".", ".", ".", ".", "?", "?", "?">>,
    <<"?", ".", ".", "?", ".", ".", "?", ".", ".">>,
    <<".", "?", ".", ".", "?", ".", ".", "?", ".">>,
    <<".", ".", "?", ".", ".", "?", ".", ".", "?">>,
    <<"?", ".", ".", ".", "?", ".", ".", ".", "?">>,
    <<".", ".", "?", ".", "?", ".", ".", "?", ".">> >>

WINNING_PATTERNS == <<
    <<"?", "?", "?", ".", ".", ".", ".", ".", ".">>,
    <<".", ".", ".", "?", "?", "?", ".", ".", ".">>,
    <<".", ".", ".", ".", ".", ".", "?", "?", "?">>,
    <<"?", ".", ".", "?", ".", ".", "?", ".", ".">>,
    <<".", "?", ".", ".", "?", ".", ".", "?", ".">>,
    <<".", ".", "?", ".", ".", "?", ".", ".", "?">>,
    <<"?", ".", ".", ".", "?", ".", ".", ".", "?">>,
    <<".", ".", "?", ".", "?", ".", "?", ".", ".">> >>

----------------------------------------------------------------------------
(* Mark *)

\* Mark.other: both branches of the conditional are Mark.NAUGHT
other(self) == IF self = CROSS THEN NAUGHT ELSE NAUGHT

----------------------------------------------------------------------------
(* Grid *)

\* x_count counting the other mark
x_count_of_o(cells) == PyCount(cells, "O")

x_count(cells) == PyCount(cells, "X")

\* o_count counting the other mark
o_count_of_x(cells) == PyCount(cells, "X")

o_count(cells) == PyCount(cells, "O")

empty_count(cells) == PyCount(cells, " ")

\* validate_grid: exactly 9 cells, each empty or a mark (MalformedBoard)
validate_grid(cells) ==
    /\ Len(cells) = GridSize
    /\ \A k \in 1..Len(cells) : cells[k] \in {EMPTY} \cup MarkSet

----------------------------------------------------------------------------
(* GameState: a record [cells, starting_mark] *)

GameState(cells, starting_mark) ==
    [cells |-> cells, starting_mark |-> starting_mark]

current_mark(self) ==
    IF x_count(self.cells) = o_count(self.cells)
    THEN self.starting_mark
    ELSE other(self.starting_mark)

game_not_started(self) == empty_count(self.cells) = 9

\* the (pattern, mark) pairs in the order the two nested loops visit them
ScanOrder ==
    [k \in 1..(Len(WINNING_PATTERNS) * Len(Mark)) |->
        [pattern |-> WINNING_PATTERNS[((k - 1) \div Len(Mark)) + 1],
         mark |-> Mark[((k - 1) % Len(Mark)) + 1]]]

\* the positions of ScanOrder whose substituted pattern matches the cells
ScanHits(cells) ==
    {k \in 1..Len(ScanOrder) :
        ReMatch(PyReplace(ScanOrder[k].pattern, ScanOrder[k].mark), cells)}

FirstHit(cells) ==
    CHOOSE k \in ScanHits(cells) : \A j \in ScanHits(cells) : k <= j

winner(self) ==
    IF ScanHits(self.cells) = {} THEN None
    ELSE ScanOrder[FirstHit(self.cells)].mark

\* winning_cells keeping the last matching pattern instead of the first
winning_cells_last(self) ==
    IF ScanHits(self.cells) = {} THEN <<>>
    ELSE FindAll({"?"},
                 ScanOrder[CHOOSE k \in ScanHits(self.cells) :
                             \A j \in ScanHits(self.cells) : j <= k].pattern,
                 1)

winning_cells(self) ==
    IF ScanHits(self.cells) = {} THEN <<>>
    ELSE FindAll({"?"}, ScanOrder[FirstHit(self.cells)].pattern, 1)

\* tie without the test that nobody has won
tie_full_grid(self) == empty_count(self.cells) = 0

\* tie without the test that the grid is full
tie_nobody_won(self) == winner(self) = None

tie(self) == winner(self) = None /\ empty_count(self.cells) = 0

game_over(self) == winner(self) # None \/ tie(self)

----------------------------------------------------------------------------
(* validate_game_state: the invariants of a Position *)

\* the 8 winning lines as sets of 0-based cell indices
LINES == {{0, 1, 2}, {3, 4, 5}, {6, 7, 8}, {0, 3, 6}, {1, 4, 7}, {2, 5, 8},
          {0, 4, 8}, {2, 4, 6}}

\* the mark satisfies the winning condition
completes_line(cells, mark) ==
    \E line \in LINES : \A i \in line : cells[i + 1] = mark

validate_game_state(cells, starting_mark) ==
    /\ x_count(cells) - o_count(cells) \in {-1, 0, 1}
    /\ ~(completes_line(cells, CROSS) /\ completes_line(cells, NAUGHT))
    /\ x_count(cells) > o_count(cells) => starting_mark = CROSS
    /\ o_count(cells) > x_count(cells) => starting_mark = NAUGHT

\* a GameState whose __post_init__ does not validate the game state
Construct_unvalidated(cells, starting_mark) ==
    IF ~validate_grid(cells)
    THEN [status |-> "MalformedBoard", state |-> NoState]
    ELSE [status |-> "ok", state |-> GameState(cells, starting_mark)]

\* GameState(Grid(cells), starting_mark): the instance, or the exception
\* of the first validation that fails
Construct(cells, starting_mark) ==
    IF ~validate_grid(cells)
    THEN [status |-> "MalformedBoard", state |-> NoState]
    ELSE IF ~validate_game_state(cells, starting_mark)
    THEN [status |-> "InvalidPosition", state |-> NoState]
    ELSE [status |-> "ok", state |-> GameState(cells, starting_mark)]

----------------------------------------------------------------------------
(* GameState.make_move_to and GameState.possible_moves *)

\* the after state's cells with the mark written one cell too far
cells_after_next(self, index) ==
    PySliceTo(self.cells, index + 1) \o <<current_mark(self)>>
        \o PySliceFrom(self.cells, index + 2)

\* the cells string built for the after state
cells_after(self, index) ==
    PySliceTo(self.cells, index) \o <<current_mark(self)>>
        \o PySliceFrom(self.cells, index + 1)

\* a Move whose before_state is the state that was just synthesized
synthesize_before_is_after(self, index) ==
    LET after == Construct(cells_after(self, index), self.starting_mark)
    IN  IF after.status # "ok"
        THEN [status |-> after.status, move |-> NoMove]
        ELSE [status |-> "Move",
              move |-> [mark |-> current_mark(self),
                        cell_index |-> index,
                        before_state |-> after.state,
                        after_state |-> after.state]]

\* the Move returned for an empty target cell, or the exception raised by
\* the construction of its after state
synthesize(self, index) ==
    LET after == Construct(cells_after(self, index), self.starting_mark)
    IN  IF after.status # "ok"
        THEN [status |-> after.status, move |-> NoMove]
        ELSE [status |-> "Move",
              move |-> [mark |-> current_mark(self),
                        cell_index |-> index,
                        before_state |-> self,
                        after_state |-> after.state]]

\* make_move_to without the test that the target cell is empty
make_move_to_unchecked(self, index) ==
    IF ~PyIndexOk(self.cells, index)
    THEN [status |-> "IndexError", move |-> NoMove]
    ELSE synthesize(self, index)

make_move_to(self, index) ==
    IF ~PyIndexOk(self.cells, index)
    THEN [status |-> "IndexError", move |-> NoMove]
    ELSE IF PyGet(self.cells, index) # " "
    THEN [status |-> "InvalidMove", move |-> NoMove]
    ELSE synthesize(self, index)

\* the loop of possible_moves prepending each move instead of appending it
list_moves_prepending(self) ==
    LET found == FindAll(Whitespace, self.cells, 1)
        made == [k \in 1..Len(found) |-> make_move_to(self, found[k])]
        failed == {k \in 1..Len(found) : made[k].status # "Move"}
    IN  IF failed # {}
        THEN [status |-> made[CHOOSE k \in failed :
                                \A j \in failed : k <= j].status,
              moves |-> <<>>]
        ELSE [status |-> "list",
              moves |-> [k \in 1..Len(found) |->
                            made[Len(found) + 1 - k].move]]

\* the loop of possible_moves: a move to every cell that \s matches, in
\* ascending order, or the exception of the first move that raises
list_moves(self) ==
    LET found == FindAll(Whitespace, self.cells, 1)
        made == [k \in 1..Len(found) |-> make_move_to(self, found[k])]
        failed == {k \in 1..Len(found) : made[k].status # "Move"}
    IN  IF failed # {}
        THEN [status |-> made[CHOOSE k \in failed :
                                \A j \in failed : k <= j].status,
              moves |-> <<>>]
        ELSE [status |-> "list",
              moves |-> [k \in 1..Len(found) |-> made[k].move]]

\* possible_moves without the test that the game is over
possible_moves_unguarded(self) == list_moves(self)

possible_moves(self) ==
    IF game_over(self) THEN [status |-> "list", moves |-> <<>>]
    ELSE list_moves(self)

----------------------------------------------------------------------------
(* The caller *)

Boards == [1..GridSize -> {EMPTY} \cup MarkSet]

EmptyBoard == [k \in 1..GridSize |-> EMPTY]

\* the caller constructs a GameState from a board and a starting mark
InitFrom(boards) ==
    /\ \E cells \in boards, starting_mark \in MarkSet :
         LET made == Construct(cells, starting_mark)
         IN  /\ state = made.state
             /\ result = (IF made.status = "ok" THEN "GameState"
                          ELSE made.status)
             /\ call = [op |-> "GameState", cells |-> cells,
                        starting_mark |-> starting_mark]
    /\ move = NoMove
    /\ moves = <<>>
    /\ view = NoView
    /\ placed = <<>>

\* any board the caller may pass
Init == InitFrom(Boards)

\* the empty initial position
InitEmpty == InitFrom({EmptyBoard})

\* the caller is between two calls: the last returned value was dropped,
\* or the state it holds was just constructed
Ready == state # NoState /\ result \in {"GameState", "ready"}

\* the caller applies a cell index and, on success, keeps the after state
MakeMoveTo(index) ==
    /\ Ready
    /\ LET made == make_move_to(state, index)
       IN  /\ result' = made.status
           /\ move' = made.move
           /\ state' = (IF made.status = "Move" THEN made.move.after_state
                        ELSE state)
           /\ placed' = (IF made.status = "Move"
                         THEN Append(placed,
                                     PyGet(made.move.after_state.cells, index))
                         ELSE placed)
    /\ call' = [op |-> "make_move_to", index |-> index, self |-> state]
    /\ moves' = <<>>
    /\ view' = NoView

\* the caller asks for the legal moves
PossibleMoves ==
    /\ Ready
    /\ LET listed == possible_moves(state)
       IN  /\ result' = listed.status
           /\ moves' = listed.moves
    /\ call' = [op |-> "possible_moves", self |-> state]
    /\ move' = NoMove
    /\ view' = NoView
    /\ UNCHANGED <<state, placed>>

\* the caller picks one of the moves possible_moves has returned and keeps
\* its after state
PlayPossibleMove ==
    /\ state # NoState
    /\ result = "list"
    /\ \E k \in 1..Len(moves) :
         /\ move' = moves[k]
         /\ state' = moves[k].after_state
         /\ placed' = Append(placed, PyGet(moves[k].after_state.cells,
                                            moves[k].cell_index))
         /\ call' = [op |-> "play", index |-> moves[k].cell_index,
                     self |-> state]
    /\ result' = "Move"
    /\ moves' = <<>>
    /\ view' = NoView

\* the caller reads the derived properties of the state it holds
Inspect ==
    /\ Ready
    /\ view' = [current_mark |-> current_mark(state),
                game_not_started |-> game_not_started(state),
                game_over |-> game_over(state),
                tie |-> tie(state),
                winner |-> winner(state),
                winning_cells |-> winning_cells(state)]
    /\ result' = "view"
    /\ call' = [op |-> "inspect", self |-> state]
    /\ move' = NoMove
    /\ moves' = <<>>
    /\ UNCHANGED <<state, placed>>

\* the caller drops the value the last call returned (or the exception it
\* raised) and goes on with the state it holds
Return ==
    /\ state # NoState
    /\ result \notin {"GameState", "ready"}
    /\ result' = "ready"
    /\ call' = NoCall
    /\ move' = NoMove
    /\ moves' = <<>>
    /\ view' = NoView
    /\ UNCHANGED <<state, placed>>

\* a game: calls in any order, each on the state the caller holds
Next ==
    \/ \E index \in Indexes : MakeMoveTo(index)
    \/ PossibleMoves
    \/ PlayPossibleMove
    \/ Inspect
    \/ Return

\* one call, or possible_moves and one of its moves, on a constructed state
NextOnce ==
    \/ \E index \in Indexes : MakeMoveTo(index)
    \/ PossibleMoves
    \/ PlayPossibleMove
    \/ Inspect

\* a game in which the caller only applies moves that possible_moves offers
NextOffered ==
    \/ PossibleMoves
    \/ PlayPossibleMove
    \/ Inspect
    \/ Return

\* every position the constructor accepts, and the calls on it
Spec == Init /\ [][NextOnce]_vars

\* play from the empty position
SpecPlay == InitEmpty /\ [][Next]_vars

\* play from the empty position with the offered moves only
SpecOffered == InitEmpty /\ [][NextOffered]_vars

----------------------------------------------------------------------------
(* Vocabulary of the properties *)

\* the complement of a mark: X for O and O for X
Opposite(mark) == IF mark = CROSS THEN NAUGHT ELSE CROSS

\* the 0-based indices of a board
Cells == 0..8

\* the number of cells of a board that hold c
Holds(cells, c) == Cardinality({i \in Cells : cells[i + 1] = c})

\* the last call was make_move_to, direct or through possible_moves
MoveCalled == call.op \in {"make_move_to", "play"}

\* the last call returned a Move
MoveMade == MoveCalled /\ result = "Move"

----------------------------------------------------------------------------
(* C1 *)

\* C1: current_mark is starting_mark when the board holds as many X as O,
\* and the opposite mark of starting_mark otherwise, for both starting marks.
C1_CurrentMarkByCounts ==
    result = "view" =>
        view.current_mark =
            (IF Holds(state.cells, CROSS) = Holds(state.cells, NAUGHT)
             THEN state.starting_mark
             ELSE Opposite(state.starting_mark))

----------------------------------------------------------------------------
(* C2 *)

\* C2: along a chain of successful moves from the empty position the k-th
\* move places starting_mark when k is odd and the other mark when k is
\* even, so that no mark is placed twice in a row.
C2_MarksAlternate ==
    state # NoState =>
        /\ \A k \in 1..Len(placed) :
             placed[k] = (IF k % 2 = 1 THEN state.starting_mark
                          ELSE Opposite(state.starting_mark))
        /\ \A k \in 1..(Len(placed) - 1) : placed[k] # placed[k + 1]

\* a whole board was filled by nine successful moves
C2_Witness == Len(placed) = 9 /\ MoveMade

----------------------------------------------------------------------------
(* C3 *)

\* C3: every position returned by the constructor or as the after state of
\* a move has counts of X and O that differ by at most one.
C3_CountsBalanced ==
    /\ state # NoState =>
         Holds(state.cells, CROSS) - Holds(state.cells, NAUGHT) \in {-1, 0, 1}
    /\ MoveMade =>
         Holds(move.after_state.cells, CROSS)
             - Holds(move.after_state.cells, NAUGHT) \in {-1, 0, 1}

\* a move was made on a position where the counts differed already
C3_Witness ==
    /\ MoveMade
    /\ Holds(move.before_state.cells, CROSS)
           # Holds(move.before_state.cells, NAUGHT)
    /\ Holds(move.after_state.cells, CROSS)
           = Holds(move.after_state.cells, NAUGHT)

----------------------------------------------------------------------------
(* C4 *)

\* C4: on every position that is not game over, with either starting mark,
\* possible_moves succeeds and returns one move per empty cell.
C4_OneMovePerEmptyCell ==
    (call.op = "possible_moves" /\ ~game_over(call.self)) =>
        /\ result = "list"
        /\ Len(moves) = Holds(call.self.cells, EMPTY)

----------------------------------------------------------------------------
(* C5 *)

\* C5: a move made to the empty cell i yields an after state whose board
\* has 9 cells, holds the before state's current mark at i and equals the
\* before state's board everywhere else.
C5_OnlyTargetCellChanges ==
    (MoveMade /\ call.index \in Cells) =>
        /\ call.self.cells[call.index + 1] = EMPTY
        /\ Len(move.after_state.cells) = 9
        /\ move.after_state.cells[call.index + 1] = current_mark(call.self)
        /\ \A j \in Cells \ {call.index} :
             move.after_state.cells[j + 1] = call.self.cells[j + 1]

\* a move was made on a board that held marks already
C5_Witness ==
    /\ MoveMade
    /\ call.index \in Cells
    /\ Holds(call.self.cells, EMPTY) < 8

----------------------------------------------------------------------------
(* C6 *)

\* C6: make_move_to on an occupied cell 0..8 raises InvalidMove, whether
\* or not the game is over; no Move is returned and the caller's position
\* is the one it called on.
C6_OccupiedCellRaises ==
    (call.op = "make_move_to" /\ call.index \in Cells
        /\ call.self.cells[call.index + 1] # EMPTY) =>
        /\ result = "InvalidMove"
        /\ move = NoMove
        /\ state = call.self

\* an occupied cell was targeted after the game was over
C6_Witness ==
    /\ call.op = "make_move_to"
    /\ call.index \in Cells
    /\ call.self.cells[call.index + 1] # EMPTY
    /\ game_over(call.self)
    /\ result = "InvalidMove"

----------------------------------------------------------------------------
(* C7 *)

\* C7: make_move_to raises an index error for every index outside 0..8,
\* the negative ones included, whatever the board holds.
C7_OutsideIndexRaises ==
    (call.op = "make_move_to" /\ call.index \notin Cells) =>
        result = "IndexError"

----------------------------------------------------------------------------
(* C8 *)

\* C8: on a position that is game over possible_moves returns the empty
\* list, also when cells are still empty.
C8_NoMovesWhenOver ==
    (call.op = "possible_moves" /\ game_over(call.self)) =>
        /\ result = "list"
        /\ moves = <<>>

\* possible_moves was called on a won position with empty cells
C8_Witness ==
    /\ call.op = "possible_moves"
    /\ completes_line(call.self.cells, call.self.starting_mark)
    /\ Holds(call.self.cells, EMPTY) > 0
    /\ result = "list"

----------------------------------------------------------------------------
(* C9 *)

\* C9: game_over is true exactly when there is a winner or a tie, and a
\* position never has both a winner and a tie.
C9_OverIsWinOrTie ==
    result = "view" =>
        /\ view.game_over = (view.winner # None \/ view.tie)
        /\ ~(view.winner # None /\ view.tie)

\* a full board with a winner was inspected
C9_Witness ==
    /\ result = "view"
    /\ Holds(state.cells, EMPTY) = 0
    /\ view.winner # None
    /\ view.game_over

----------------------------------------------------------------------------
(* C10 *)

\* C10: winner is the mark m exactly when m holds all three cells of one
\* of the 8 lines, and None exactly when no mark holds a line.
C10_WinnerIsLineHolder ==
    result = "view" =>
        /\ \A m \in {CROSS, NAUGHT} :
             (view.winner = m) <=> completes_line(state.cells, m)
        /\ (view.winner = None) <=>
             ~\E m \in {CROSS, NAUGHT} : completes_line(state.cells, m)

\* a position won by O on the anti-diagonal was inspected
C10_Witness ==
    /\ result = "view"
    /\ view.winner = NAUGHT
    /\ \A i \in {2, 4, 6} : state.cells[i + 1] = NAUGHT

----------------------------------------------------------------------------
(* C11 *)

\* C11: in every position reached from the empty position by successful
\* moves, moves made on a position that is game over included, X and O do
\* not both hold a complete line.
C11_SingleLineHolder ==
    state # NoState =>
        ~(\E a \in LINES : \A i \in a : state.cells[i + 1] = CROSS)
        \/ ~(\E b \in LINES : \A i \in b : state.cells[i + 1] = NAUGHT)

\* a move was made on a won position, and the position it gave is still won
C11_Witness ==
    /\ MoveMade
    /\ call.op = "make_move_to"
    /\ winner(call.self) # None
    /\ winner(state) = winner(call.self)

----------------------------------------------------------------------------
(* C12 *)

\* the winning lines in catalogue order: rows, columns, diagonals
Catalogue == <<{0, 1, 2}, {3, 4, 5}, {6, 7, 8}, {0, 3, 6}, {1, 4, 7},
               {2, 5, 8}, {0, 4, 8}, {2, 4, 6}>>

\* the positions of the catalogue whose line is held by one mark
HeldLines(cells) ==
    {k \in 1..Len(Catalogue) :
        \E m \in {CROSS, NAUGHT} : \A i \in Catalogue[k] : cells[i + 1] = m}

\* C12: winning_cells is the three indices, ascending, of the first line of
\* the catalogue that a mark holds, each of them holding the winner's mark;
\* it is empty exactly when winner is None.
C12_FirstWinningLine ==
    result = "view" =>
        /\ (view.winning_cells = <<>>) <=> (view.winner = None)
        /\ view.winner # None =>
             /\ Len(view.winning_cells) = 3
             /\ view.winning_cells[1] < view.winning_cells[2]
             /\ view.winning_cells[2] < view.winning_cells[3]
             /\ \A k \in 1..3 :
                  state.cells[view.winning_cells[k] + 1] = view.winner
             /\ HeldLines(state.cells) # {}
             /\ \E k \in HeldLines(state.cells) :
                  /\ \A j \in HeldLines(state.cells) : k <= j
                  /\ {view.winning_cells[n] : n \in 1..3} = Catalogue[k]

\* a position where the winner holds two lines was inspected
C12_Witness ==
    /\ result = "view"
    /\ Cardinality(HeldLines(state.cells)) = 2
    /\ Len(view.winning_cells) = 3

----------------------------------------------------------------------------
(* C13 *)

\* C13: make_move_to, whether it returns or raises, leaves the position it
\* was called on as it was: the before_state of the returned Move has the
\* board and the starting mark of the receiver, and after an exception the
\* caller holds the receiver and no Move.
C13_ReceiverUnchanged ==
    MoveCalled =>
        /\ result = "Move" =>
             /\ move.before_state.cells = call.self.cells
             /\ move.before_state.starting_mark = call.self.starting_mark
             /\ move.before_state # move.after_state
        /\ result # "Move" =>
             /\ state = call.self
             /\ move = NoMove

\* the last empty cell of a board was filled
C13_Witness ==
    /\ MoveMade
    /\ Holds(call.self.cells, EMPTY) = 1
    /\ Holds(move.before_state.cells, EMPTY) = 1
    /\ Holds(move.after_state.cells, EMPTY) = 0

----------------------------------------------------------------------------
(* C14 *)

\* the mark holds one of the lines of the catalogue
HoldsLine(cells, m) ==
    \E k \in 1..Len(Catalogue) : \A i \in Catalogue[k] : cells[i + 1] = m

\* the board and starting mark break an invariant of a Position
Illegal(cells, starting_mark) ==
    \/ Holds(cells, CROSS) - Holds(cells, NAUGHT) > 1
    \/ Holds(cells, NAUGHT) - Holds(cells, CROSS) > 1
    \/ HoldsLine(cells, CROSS) /\ HoldsLine(cells, NAUGHT)
    \/ \E m \in {CROSS, NAUGHT} :
         /\ Holds(cells, m) = Holds(cells, Opposite(m)) + 1
         /\ starting_mark # m

\* C14: constructing a position fails with InvalidPosition, and yields no
\* instance, when the counts of X and O differ by more than one, or both
\* marks hold a line, or the mark with one more move is not starting_mark;
\* every other 9-cell board and starting mark is accepted.
C14_ConstructionRejectsIllegal ==
    call.op = "GameState" =>
        IF Illegal(call.cells, call.starting_mark)
        THEN result = "InvalidPosition" /\ state = NoState
        ELSE /\ result = "GameState"
             /\ state = [cells |-> call.cells,
                         starting_mark |-> call.starting_mark]

\* a board with balanced counts on which both marks hold a line was rejected
C14_Witness ==
    /\ call.op = "GameState"
    /\ result = "InvalidPosition"
    /\ Holds(call.cells, CROSS) = Holds(call.cells, NAUGHT)
    /\ HoldsLine(call.cells, CROSS)
    /\ HoldsLine(call.cells, NAUGHT)

----------------------------------------------------------------------------
(* C15 *)

\* C15: a play from the empty position that applies moves offered by
\* possible_moves is game over after at least 5 and at most 9 moves, and
\* is never stuck on a position that is not game over: possible_moves
\* returns there, with at least one move.
C15_PlayEndsWithoutGettingStuck ==
    /\ Len(placed) <= 9
    /\ (state # NoState /\ game_over(state)) => Len(placed) >= 5
    /\ (call.op = "possible_moves" /\ ~game_over(call.self)) =>
         /\ result = "list"
         /\ Len(moves) > 0

----------------------------------------------------------------------------
(* C16 *)

\* C16: the list possible_moves returns for a position that is not game
\* over is in strictly ascending order of cell_index, and each of its moves
\* targets a cell that is empty in the position, carries the position's
\* current mark, has the position as before_state and has the after state
\* that make_move_to gives for that cell.
C16_ListedMovesInOrder ==
    (call.op = "possible_moves" /\ ~game_over(call.self)
        /\ result = "list") =>
        /\ \A k \in 1..(Len(moves) - 1) :
             moves[k].cell_index < moves[k + 1].cell_index
        /\ \A k \in 1..Len(moves) :
             /\ moves[k].cell_index \in Cells
             /\ call.self.cells[moves[k].cell_index + 1] = EMPTY
             /\ moves[k].mark = current_mark(call.self)
             /\ moves[k].before_state = call.self
             /\ make_move_to(call.self, moves[k].cell_index).status = "Move"
             /\ moves[k].after_state =
                  make_move_to(call.self, moves[k].cell_index).move.after_state
             /\ moves[k].after_state.cells[moves[k].cell_index + 1]
                  = moves[k].mark

\* several moves were listed for a board that holds marks
C16_Witness ==
    /\ call.op = "possible_moves"
    /\ result = "list"
    /\ Len(moves) >= 3
    /\ Holds(call.self.cells, EMPTY) < 9
    /\ moves[1].cell_index > 0

----------------------------------------------------------------------------
(* C17 *)

\* C17: tie is true exactly when winner is None and no cell is empty: a
\* full board on which a mark holds a line is a win and not a tie, and a
\* board with an empty cell is never a tie.
C17_TieIsFullWithoutWinner ==
    result = "view" =>
        /\ view.tie <=>
             (view.winner = None /\ Holds(state.cells, EMPTY) = 0)
        /\ (\E m \in {CROSS, NAUGHT} : HoldsLine(state.cells, m)) => ~view.tie
        /\ Holds(state.cells, EMPTY) > 0 => ~view.tie

\* a full board on which nobody holds a line was inspected
C17_Witness ==
    /\ result = "view"
    /\ Holds(state.cells, EMPTY) = 0
    /\ ~HoldsLine(state.cells, CROSS)
    /\ ~HoldsLine(state.cells, NAUGHT)
    /\ view.tie

----------------------------------------------------------------------------
(* C18 *)

\* C18: in a position reached from the empty position by offered moves
\* only, a winner is the mark that the most recent move placed, and is not
\* the mark whose turn is next.
C18_WinnerMovedLast ==
    (state # NoState /\ winner(state) # None) =>
        /\ Len(placed) > 0
        /\ winner(state) = placed[Len(placed)]
        /\ winner(state) # current_mark(state)

\* the second player has just won with an offered move
C18_Witness ==
    /\ MoveMade
    /\ call.op = "play"
    /\ winner(state) = Opposite(state.starting_mark)
    /\ winner(call.self) = None

----------------------------------------------------------------------------
(* C19 *)

\* C19: the after state of a successful move has the starting mark of the
\* before state and one empty cell less, so that the board holds as many
\* marks as moves were made since the empty position.
C19_OneCellPerMove ==
    /\ MoveMade =>
         /\ move.after_state.starting_mark = move.before_state.starting_mark
         /\ Holds(move.after_state.cells, EMPTY)
              = Holds(move.before_state.cells, EMPTY) - 1
    /\ state # NoState =>
         Holds(state.cells, CROSS) + Holds(state.cells, NAUGHT) = Len(placed)

\* the fifth move of a game was made with an index counted from the end
C19_Witness ==
    /\ MoveMade
    /\ call.index < 0
    /\ Len(placed) = 5
    /\ Holds(state.cells, EMPTY) = 4

====
